---- MODULE Spec2Model ----
(***************************************************************************)
(* Model of the multi-agent research server: the MCP tool registry built   *)
(* at startup (initializeMCP), tool invocation (callMCPTool), the          *)
(* multi-turn tool-use loop (callClaudeAgent) and the POST /api/agent      *)
(* handlers of the three deployment variants (server.js, api/agent.js and  *)
(* the serverless variant with direct search).                             *)
(*                                                                         *)
(* JavaScript strings that the code only compares or concatenates are TLA+ *)
(* strings (\o is concatenation).  Strings the code inspects character by  *)
(* character (configuration values, startsWith('$'), slice(1)) are         *)
(* sequences of one-character strings.                                     *)
(***************************************************************************)
EXTENDS Integers, Sequences, FiniteSets, TLC

VARIABLES
    boot,        \* position of start(): "start", "connect", "listTools", "initialized", "listening", "crashed"
    mcpServers,  \* Object.entries(config.mcpServers): the provider names, in order
    serverIdx,   \* index of the provider the for-loop of initializeMCP is at
    processEnv,  \* process.env: a function whose domain is the set of defined variables
    transport,   \* the StdioClientTransport built last: configured and resolved args and env
    mcpClients,  \* the keys of the mcpClients object
    mcpTools,    \* the mcpTools array
    attempts,    \* history: what happened to each provider processed so far
    run          \* one POST /api/agent request each: the handler's and callClaudeAgent's locals

vars == <<boot, mcpServers, serverIdx, processEnv, transport, mcpClients, mcpTools, attempts, run>>

-----------------------------------------------------------------------------
(* Bounds of the exploration *)

MaxServers == 2     \* providers in mcp-config.json
MaxTools == 2       \* tools one provider lists
MaxArgs == 1        \* configured args of one provider
MaxBlocks == 2      \* content blocks of one model response
MaxModelCalls == 2  \* model calls of one run the exploration follows
MaxItems == 2       \* segments of one provider answer

-----------------------------------------------------------------------------
(* Input universes *)

\* Provider names and local tool names; some contain the separator "__".
ServerNames == {"a", "b", "a__b"}
LocalToolNames == {"c", "b__c"}

\* Sequences over S of length 0..n
RECURSIVE SeqsUpTo(_, _)
SeqsUpTo(S, n) ==
    IF n = 0 THEN {<<>>}
    ELSE LET shorter == SeqsUpTo(S, n - 1)
         IN  shorter \cup {Append(s, x) : s \in {t \in shorter : Len(t) = n - 1}, x \in S}

NoRepeat(s) == \A i, j \in 1..Len(s) : i # j => s[i] # s[j]

\* mcp-config.json is a JSON object: its keys are distinct.
AllConfigs == {s \in SeqsUpTo(ServerNames, MaxServers) : NoRepeat(s)}

\* What a provider answers to listTools: tool names, distinct within one provider.
AllToolLists == {s \in SeqsUpTo(LocalToolNames, MaxTools) : NoRepeat(s)}

\* Configuration values and environment values, as character sequences.
ConfigValues == {<<"$", "S">>, <<"$", "T">>, <<"$">>, <<"x">>}
EnvVarNames == {<<"S">>}
EnvValues == {<<>>, <<"v">>}
CfgEnvKeys == {<<"K">>}

PartialFunctions(D, R) == UNION {[d -> R] : d \in SUBSET D}

AllProcessEnvs == PartialFunctions(EnvVarNames, EnvValues)
AllCfgArgs == SeqsUpTo(ConfigValues, MaxArgs)
AllCfgEnvs == PartialFunctions(CfgEnvKeys, ConfigValues)

NoTransport == [serverName |-> "", cfgArgs |-> <<>>, cfgEnv |-> <<>>, args |-> <<>>, env |-> <<>>]

-----------------------------------------------------------------------------
(* initializeMCP: configuration substitution *)

StartsWithDollar(value) == Len(value) > 0 /\ Head(value) = "$"

\* process.env[envVar] || value : the variable's value when it is defined and
\* not the empty string (the empty string is falsy), otherwise the literal.
ResolveValue(value, penv) ==
    IF StartsWithDollar(value)
    THEN LET envVar == Tail(value)
         IN  IF envVar \in DOMAIN penv /\ penv[envVar] # <<>>
             THEN penv[envVar]
             ELSE value
    ELSE value

\* (serverConfig.args || []).map(...)
ResolveArgs(cfgArgs, penv) == [i \in 1..Len(cfgArgs) |-> ResolveValue(cfgArgs[i], penv)]

\* { ...process.env, ...(serverConfig.env || {}) }
MergeEnv(penv, cfgEnv) ==
    [k \in (DOMAIN penv) \cup (DOMAIN cfgEnv) |->
        IF k \in DOMAIN cfgEnv THEN cfgEnv[k] ELSE penv[k]]

\* for (const [key, value] of Object.entries(env)) ... env[key] = process.env[envVar] || value
ResolveEnv(env, penv) == [k \in DOMAIN env |-> ResolveValue(env[k], penv)]

BuildTransport(serverName, cfgArgs, cfgEnv, penv) ==
    [serverName |-> serverName,
     cfgArgs    |-> cfgArgs,
     cfgEnv     |-> cfgEnv,
     args       |-> ResolveArgs(cfgArgs, penv),
     env        |-> ResolveEnv(MergeEnv(penv, cfgEnv), penv)]

-----------------------------------------------------------------------------
(* initializeMCP: the registry *)

QualifiedName(serverName, toolName) == serverName \o "__" \o toolName

ToolDescriptor(serverName, toolName) ==
    [name          |-> QualifiedName(serverName, toolName),
     _serverName   |-> serverName,
     _originalName |-> toolName]

\* Mutant: the catalog is overwritten by each provider's tools instead of extended.
PushToolsOverwrite(catalog, serverName, tools) ==
    [i \in 1..Len(tools) |-> ToolDescriptor(serverName, tools[i])]

\* for (const tool of toolsResult.tools) mcpTools.push({...})
PushTools(catalog, serverName, tools) ==
    catalog \o [i \in 1..Len(tools) |-> ToolDescriptor(serverName, tools[i])]

\* The for-loop moves to the next provider, or initializeMCP returns.
NextServer ==
    /\ serverIdx' = serverIdx + 1
    /\ boot' = IF serverIdx < Len(mcpServers) THEN "connect" ELSE "initialized"

\* loadMCPConfig(): the configuration file is read and parsed.
LoadMCPConfig(Configs) ==
    /\ boot = "start"
    /\ \E cfg \in Configs :
        /\ mcpServers' = cfg
        /\ boot' = IF Len(cfg) > 0 THEN "connect" ELSE "initialized"
    /\ serverIdx' = 1
    /\ UNCHANGED <<processEnv, transport, mcpClients, mcpTools, attempts, run>>

\* JSON.parse throws on a malformed file: initializeMCP rejects, start() logs it
\* and server.listen is never reached.
LoadMCPConfigFails ==
    /\ boot = "start"
    /\ boot' = "crashed"
    /\ UNCHANGED <<mcpServers, serverIdx, processEnv, transport, mcpClients, mcpTools, attempts, run>>

\* Mutant: the connected client is not stored in mcpClients.
ConnectServerUnstored(CfgArgs, CfgEnvs) ==
    /\ boot = "connect"
    /\ \E cfgArgs \in CfgArgs, cfgEnv \in CfgEnvs :
        transport' = BuildTransport(mcpServers[serverIdx], cfgArgs, cfgEnv, processEnv)
    /\ boot' = "listTools"
    /\ UNCHANGED <<mcpServers, serverIdx, processEnv, mcpClients, mcpTools, attempts, run>>

\* The transport is built and client.connect succeeds: the client is stored
\* and listTools is called.
ConnectServer(CfgArgs, CfgEnvs) ==
    /\ boot = "connect"
    /\ \E cfgArgs \in CfgArgs, cfgEnv \in CfgEnvs :
        transport' = BuildTransport(mcpServers[serverIdx], cfgArgs, cfgEnv, processEnv)
    /\ mcpClients' = mcpClients \cup {mcpServers[serverIdx]}
    /\ boot' = "listTools"
    /\ UNCHANGED <<mcpServers, serverIdx, processEnv, mcpTools, attempts, run>>

\* The transport is built and client.connect throws: caught, logged, next provider.
ConnectFails(CfgArgs, CfgEnvs) ==
    /\ boot = "connect"
    /\ \E cfgArgs \in CfgArgs, cfgEnv \in CfgEnvs :
        transport' = BuildTransport(mcpServers[serverIdx], cfgArgs, cfgEnv, processEnv)
    /\ attempts' = Append(attempts,
            [serverName |-> mcpServers[serverIdx], tools |-> <<>>, connected |-> FALSE, listed |-> FALSE])
    /\ NextServer
    /\ UNCHANGED <<mcpServers, processEnv, mcpClients, mcpTools, run>>

\* client.listTools() returns: every tool is pushed under its namespaced name.
ListToolsReturns(ToolLists) ==
    /\ boot = "listTools"
    /\ \E tools \in ToolLists :
        /\ mcpTools' = PushTools(mcpTools, mcpServers[serverIdx], tools)
        /\ attempts' = Append(attempts,
                [serverName |-> mcpServers[serverIdx], tools |-> tools, connected |-> TRUE, listed |-> TRUE])
    /\ NextServer
    /\ UNCHANGED <<mcpServers, processEnv, transport, mcpClients, run>>

\* client.listTools() throws: caught, logged, next provider; the client stays stored.
ListToolsFails ==
    /\ boot = "listTools"
    /\ attempts' = Append(attempts,
            [serverName |-> mcpServers[serverIdx], tools |-> <<>>, connected |-> TRUE, listed |-> FALSE])
    /\ NextServer
    /\ UNCHANGED <<mcpServers, processEnv, transport, mcpClients, mcpTools, run>>

\* Mutant: start() listens without awaiting initializeMCP.
ListenEarly ==
    /\ boot \in {"connect", "listTools", "initialized"}
    /\ boot' = "listening"
    /\ UNCHANGED <<mcpServers, serverIdx, processEnv, transport, mcpClients, mcpTools, attempts, run>>

\* start(): after initializeMCP has returned, server.listen.
Listen ==
    /\ boot = "initialized"
    /\ boot' = "listening"
    /\ UNCHANGED <<mcpServers, serverIdx, processEnv, transport, mcpClients, mcpTools, attempts, run>>

-----------------------------------------------------------------------------
(* Requests, messages and content blocks *)

RunIds == {1, 2}

Variants == {"server", "api", "direct"}   \* server.js, api/agent.js, serverless with direct search
AgentTypes == {"researcher", "analyzer", "writer"}   \* the own keys of agentPrompts

\* agentPrompts is an object literal: a lookup of a key it does not own goes on
\* to Object.prototype, whose members (functions) are truthy.
ObjectPrototypeKeys == {"constructor", "toString"}

\* A field of the JSON body: absent, or a string.
Absent == [value |-> "", defined |-> FALSE]
Field(s) == [value |-> s, defined |-> TRUE]
Falsy(f) == ~f.defined \/ f.value = ""

Acknowledgment == "I understand the context. Please provide your request."

StringMessage(role, text) == [role |-> role, text |-> text, kind |-> "string", blocks |-> <<>>]
BlocksMessage(role, blocks) == [role |-> role, text |-> "", kind |-> "blocks", blocks |-> blocks]

TextBlock(text) == [name |-> "", text |-> text, type |-> "text", id |-> "", input |-> ""]
ToolUseBlock(id, name, input) == [name |-> name, text |-> "", type |-> "tool_use", id |-> id, input |-> input]

\* is_error is set on error results only; FALSE stands for the missing field.
ToolResultBlock(id, content, isError) ==
    [type |-> "tool_result", content |-> content, tool_use_id |-> id, is_error |-> isError]

NoResponse == [content |-> <<>>, stop_reason |-> ""]
NoResult == [content |-> <<>>, hasContent |-> FALSE]
NoSearch == [kind |-> "none", results |-> <<>>]
NoPending == [serverName |-> "", name |-> "", kind |-> "none", message |-> "", arguments |-> ""]
NoRequest == [message |-> Absent, variant |-> "", bodyOk |-> TRUE, agent |-> Absent, context |-> Absent]

IdleRun ==
    [tools       |-> <<>>,        \* callClaudeAgent: tools
     listed      |-> <<>>,        \* body.tools of a 200 to GET /api/tools
     pc          |-> "idle",      \* "idle", "searching", "awaiting_model", "awaiting_tool", "responded"
     request     |-> NoRequest,   \* the request being served
     messages    |-> <<>>,        \* callClaudeAgent: messages
     response    |-> NoResponse,  \* callClaudeAgent: response
     blockIdx    |-> 0,           \* position of the for-loop over response.content
     toolResults |-> <<>>,        \* callClaudeAgent: toolResults
     pending     |-> NoPending,   \* the callMCPTool invocation being awaited
     modelCalls  |-> 0,           \* history: anthropic.messages.create calls issued
     calls       |-> <<>>,        \* history: the tools parameter of each model call
     prevSent    |-> <<>>,        \* history: the messages the latest answered model call was sent
     outcomes    |-> <<>>,        \* history: how each invocation of the current round ended
     toolCalls   |-> 0,           \* history: client.callTool calls issued
     toolRounds  |-> 0,           \* history: responses with stop_reason tool_use received
     toolFailures |-> 0,          \* history: callMCPTool invocations that threw
     searches    |-> 0,           \* history: braveSearch calls issued
     searched    |-> NoSearch,    \* history: what braveSearch came to
     modelFailure |-> Absent,     \* history: the error a model call of this run was rejected with
     responses   |-> 0,           \* history: HTTP responses written for this request
     status      |-> 0,           \* HTTP status written, 0 while none
     result      |-> "",          \* body.result of a 200
     error       |-> ""]          \* body.error of a 400 or 500

-----------------------------------------------------------------------------
(* callMCPTool and getAnthropicTools *)

Min(S) == CHOOSE x \in S : \A y \in S : x <= y

\* mcpTools.find(t => t.name === toolName): the index of the first match, 0 if none
FindTool(toolName) ==
    LET hits == {i \in 1..Len(mcpTools) : mcpTools[i].name = toolName}
    IN  IF hits = {} THEN 0 ELSE Min(hits)

\* Mutant: the provider is called with the catalog name where the local name belongs.
CallMCPToolQualified(toolName, args) ==
    LET i == FindTool(toolName)
    IN  IF i = 0
        THEN [NoPending EXCEPT !.kind = "throw", !.message = "Tool not found: " \o toolName]
        ELSE IF mcpTools[i]._serverName \notin mcpClients
        THEN [NoPending EXCEPT !.kind = "throw",
                               !.message = "MCP client not found: " \o mcpTools[i]._serverName]
        ELSE [serverName |-> mcpTools[i]._serverName, name |-> mcpTools[i].name, kind |-> "call",
              message |-> "", arguments |-> args]

\* callMCPTool up to its await: it throws, or it calls the provider's client.
CallMCPTool(toolName, args) ==
    LET i == FindTool(toolName)
    IN  IF i = 0
        THEN [NoPending EXCEPT !.kind = "throw", !.message = "Tool not found: " \o toolName]
        ELSE IF mcpTools[i]._serverName \notin mcpClients
        THEN [NoPending EXCEPT !.kind = "throw",
                               !.message = "MCP client not found: " \o mcpTools[i]._serverName]
        ELSE [serverName |-> mcpTools[i]._serverName, name |-> mcpTools[i]._originalName, kind |-> "call",
              message |-> "", arguments |-> args]

\* getAnthropicTools(): the catalog, by name
GetAnthropicTools == [i \in 1..Len(mcpTools) |-> mcpTools[i].name]

\* Mutant: every agent type is given the catalog.
ToolsForAnyAgent(agentType) == GetAnthropicTools

\* const tools = agentType === 'researcher' ? getAnthropicTools() : []
ToolsFor(agentType) == IF agentType = "researcher" THEN GetAnthropicTools ELSE <<>>

\* tools: tools.length > 0 ? tools : undefined
ToolsParam(tools) ==
    IF Len(tools) > 0 THEN [tools |-> tools, defined |-> TRUE]
    ELSE [tools |-> <<>>, defined |-> FALSE]

\* The serverless variants pass no tools parameter at all.
NoToolsParam == [tools |-> <<>>, defined |-> FALSE]

-----------------------------------------------------------------------------
(* callClaudeAgent *)

\* Mutant: the context is seeded without the acknowledgment turn.
SeedMessagesNoAck(userMessage, previousContext) ==
    (IF Falsy(previousContext) THEN <<>>
     ELSE <<StringMessage("user", previousContext.value)>>)
    \o <<StringMessage("user", userMessage)>>

\* messages as seeded before the first model call
SeedMessages(userMessage, previousContext) ==
    (IF Falsy(previousContext) THEN <<>>
     ELSE <<StringMessage("user", previousContext.value),
            StringMessage("assistant", Acknowledgment)>>)
    \o <<StringMessage("user", userMessage)>>

\* response.content.filter(block => block.type === 'text').map(block => block.text).join('\n')
RECURSIVE JoinLines(_)
JoinLines(texts) ==
    IF Len(texts) = 0 THEN ""
    ELSE IF Len(texts) = 1 THEN texts[1]
    ELSE texts[1] \o "\n" \o JoinLines(Tail(texts))

IsText(block) == block.type = "text"
IsToolUse(block) == block.type = "tool_use"

\* Mutant: only the first text block is returned.
TextOfFirstBlock(content) ==
    LET textBlocks == SelectSeq(content, IsText)
    IN  IF Len(textBlocks) = 0 THEN "" ELSE textBlocks[1].text

\* Mutant: the text field of every block is joined, whatever the block's type.
TextOfEveryBlock(content) ==
    JoinLines([i \in 1..Len(content) |-> content[i].text])

TextOf(content) ==
    LET textBlocks == SelectSeq(content, IsText)
    IN  JoinLines([i \in 1..Len(textBlocks) |-> textBlocks[i].text])

\* The next tool_use block of content at or after position i, 0 if none
NextToolUse(content, i) ==
    LET js == {j \in i..Len(content) : IsToolUse(content[j])}
    IN  IF js = {} THEN 0 ELSE Min(js)

\* Mutant: only the last two messages are kept for the call.
IssueModelCallTrimmed(rs, toolsParam) ==
    [rs EXCEPT !.pc = "awaiting_model",
               !.modelCalls = @ + 1,
               !.calls = Append(@, toolsParam),
               !.messages = IF Len(@) > 2 THEN SubSeq(@, Len(@) - 1, Len(@)) ELSE @]

\* anthropic.messages.create is called with the current messages
IssueModelCall(rs, toolsParam) ==
    [rs EXCEPT !.pc = "awaiting_model",
               !.modelCalls = @ + 1,
               !.calls = Append(@, toolsParam)]

\* Mutant: the tool results are pushed as a turn of role "tool".
DispatchToolRole(rs, i) ==
    LET j == NextToolUse(rs.response.content, i)
    IN  IF j # 0
        THEN LET block == rs.response.content[j]
                 call == CallMCPTool(block.name, block.input)
             IN  [rs EXCEPT !.pc = "awaiting_tool",
                            !.blockIdx = j,
                            !.pending = call,
                            !.toolCalls = IF call.kind = "call" THEN @ + 1 ELSE @]
        ELSE IssueModelCall(
                [rs EXCEPT !.messages = Append(@, BlocksMessage("tool", rs.toolResults)),
                           !.blockIdx = 0,
                           !.pending = NoPending],
                ToolsParam(rs.tools))

\* The body of the while loop from position i of response.content on: up to the
\* next callMCPTool invocation, or, when no tool_use block is left, through the
\* push of the user turn to the next model call.
Dispatch(rs, i) ==
    LET j == NextToolUse(rs.response.content, i)
    IN  IF j # 0
        THEN LET block == rs.response.content[j]
                 call == CallMCPTool(block.name, block.input)
             IN  [rs EXCEPT !.pc = "awaiting_tool",
                            !.blockIdx = j,
                            !.pending = call,
                            !.toolCalls = IF call.kind = "call" THEN @ + 1 ELSE @]
        ELSE IssueModelCall(
                [rs EXCEPT !.messages = Append(@, BlocksMessage("user", rs.toolResults)),
                           !.blockIdx = 0,
                           !.pending = NoPending],
                ToolsParam(rs.tools))

\* Mutant: the error result carries the tool's name where the id belongs.
ErrorResultWrongId(block, message) == ToolResultBlock(block.name, "Error: " \o message, TRUE)

\* catch (error) { toolResults.push({ ..., content: `Error: ${error.message}`, is_error: true }) }
ErrorResult(block, message) == ToolResultBlock(block.id, "Error: " \o message, TRUE)

\* JSON.stringify of a provider result
RECURSIVE JoinItems(_)
JoinItems(items) ==
    IF Len(items) = 0 THEN ""
    ELSE (IF items[1].type = "text"
          THEN "{\"type\":\"text\",\"text\":\"" \o items[1].text \o "\"}"
          ELSE "{\"type\":\"" \o items[1].type \o "\"}")
         \o (IF Len(items) > 1 THEN "," ELSE "") \o JoinItems(Tail(items))

Stringify(result) ==
    IF result.hasContent THEN "{\"content\":[" \o JoinItems(result.content) \o "]}" ELSE "{}"

\* let textContent = ''; for (const item of result.content) if (item.type === 'text') textContent += item.text
RECURSIVE TextContent(_)
TextContent(items) ==
    IF Len(items) = 0 THEN ""
    ELSE (IF items[1].type = "text" THEN items[1].text ELSE "") \o TextContent(Tail(items))

\* toolResults.push({ type: 'tool_result', tool_use_id: block.id, content: textContent || JSON.stringify(result) })
SuccessResult(block, result) ==
    LET textContent == IF result.hasContent THEN TextContent(result.content) ELSE ""
    IN  ToolResultBlock(block.id, IF textContent # "" THEN textContent ELSE Stringify(result), FALSE)

\* The run is over: the handler has written its response and the locals are gone.
Respond(rs, status, result, error) ==
    [rs EXCEPT !.pc = "responded",
               !.responses = @ + 1,
               !.status = status,
               !.result = result,
               !.error = error,
               !.messages = <<>>,
               !.prevSent = <<>>,
               !.tools = <<>>,
               !.toolResults = <<>>,
               !.outcomes = <<>>,
               !.blockIdx = 0,
               !.pending = NoPending]

-----------------------------------------------------------------------------
(* braveSearch (serverless variant with direct search) *)

\* results.map((r, i) => `[${i + 1}] ${r.title}\n${r.description}\nSource: ${r.url}`).join('\n\n')
RECURSIVE SearchContext(_, _)
SearchContext(results, i) ==
    IF i > Len(results) THEN ""
    ELSE "[" \o ToString(i) \o "] " \o results[i].title \o "\n" \o results[i].description
         \o "\nSource: " \o results[i].url
         \o (IF i < Len(results) THEN "\n\n" ELSE "") \o SearchContext(results, i + 1)

EnrichedMessage(userMessage, results) ==
    "Search query: \"" \o userMessage \o "\"\n\nWeb search results:\n" \o SearchContext(results, 1)
    \o "\n\nPlease analyze these search results and provide key findings about: " \o userMessage

\* What braveSearch returns: null (no key, status not ok, no web results, a
\* caught error) or the list of results, which may be empty.
SearchOutcome(kind, results) == [kind |-> kind, results |-> results]
SearchReturnsNull(outcome) == outcome.kind # "results"

-----------------------------------------------------------------------------
(* The handlers *)

\* if (!agentPrompts[agent])
PromptFound(agent) == agent \in AgentTypes \cup ObjectPrototypeKeys

\* Mutant: messages is one array of the module, which every run pushes onto.
FirstModelCallSharedLog(rs, userMessage) ==
    LET tools == IF rs.request.variant = "server" THEN ToolsFor(rs.request.agent.value) ELSE <<>>
        shared == run[1].messages \o run[2].messages
    IN  IssueModelCall(
            [rs EXCEPT !.messages = shared \o SeedMessages(userMessage, rs.request.context),
                       !.tools = tools],
            IF rs.request.variant = "server" THEN ToolsParam(tools) ELSE NoToolsParam)

\* callClaudeAgent from the seeding of messages to the first model call
FirstModelCall(rs, userMessage) ==
    LET tools == IF rs.request.variant = "server" THEN ToolsFor(rs.request.agent.value) ELSE <<>>
    IN  IssueModelCall(
            [rs EXCEPT !.messages = SeedMessages(userMessage, rs.request.context),
                       !.tools = tools],
            IF rs.request.variant = "server" THEN ToolsParam(tools) ELSE NoToolsParam)

\* callClaudeAgent up to its first await
StartAgent(rs) ==
    IF rs.request.variant = "direct" /\ rs.request.agent.value = "researcher"
    THEN [rs EXCEPT !.pc = "searching", !.searches = @ + 1]
    ELSE FirstModelCall(rs, rs.request.message.value)

\* The handler of POST /api/agent up to its first await
Validate(rs) ==
    IF ~rs.request.bodyOk
    THEN Respond(rs, 500, "", "Unexpected token")
    ELSE IF Falsy(rs.request.agent) \/ Falsy(rs.request.message)
    THEN Respond(rs, 400, "", "Missing agent or message")
    ELSE IF ~PromptFound(rs.request.agent.value)
    THEN Respond(rs, 400, "", "Invalid agent type")
    ELSE StartAgent(rs)

\* A POST /api/agent request arrives and its body has been read.
HandleAgentRequest(r, Requests) ==
    /\ boot = "listening"
    /\ run[r].pc = "idle"
    /\ \E req \in Requests :
        run' = [run EXCEPT ![r] = Validate([run[r] EXCEPT !.request = req])]
    /\ UNCHANGED <<boot, mcpServers, serverIdx, processEnv, transport, mcpClients, mcpTools, attempts>>

\* Mutant: an error thrown while searching leaves braveSearch and fails the request.
SearchCompletesRethrows(r, Outcomes) ==
    /\ run[r].pc = "searching"
    /\ \E outcome \in Outcomes :
        LET userMessage == run[r].request.message.value
            enrichedMessage ==
                IF ~SearchReturnsNull(outcome) /\ Len(outcome.results) > 0
                THEN EnrichedMessage(userMessage, outcome.results)
                ELSE userMessage
            searchedRun == [run[r] EXCEPT !.searched = outcome]
        IN  run' = [run EXCEPT ![r] =
                IF outcome.kind = "thrown"
                THEN Respond(searchedRun, 500, "", "fetch failed")
                ELSE FirstModelCall(searchedRun, enrichedMessage)]
    /\ UNCHANGED <<boot, mcpServers, serverIdx, processEnv, transport, mcpClients, mcpTools, attempts>>

\* braveSearch resolves: the message is enriched when there are results, and
\* the model is called.
SearchCompletes(r, Outcomes) ==
    /\ run[r].pc = "searching"
    /\ \E outcome \in Outcomes :
        LET userMessage == run[r].request.message.value
            enrichedMessage ==
                IF ~SearchReturnsNull(outcome) /\ Len(outcome.results) > 0
                THEN EnrichedMessage(userMessage, outcome.results)
                ELSE userMessage
        IN  run' = [run EXCEPT ![r] =
                FirstModelCall([run[r] EXCEPT !.searched = outcome], enrichedMessage)]
    /\ UNCHANGED <<boot, mcpServers, serverIdx, processEnv, transport, mcpClients, mcpTools, attempts>>

\* Mutant: the loop goes on whenever the response holds a tool_use block.
LoopsOnToolUseBlocks(rs, resp) ==
    /\ rs.request.variant = "server"
    /\ \E i \in 1..Len(resp.content) : IsToolUse(resp.content[i])

\* The loop of callClaudeAgent exists in server.js only.
LoopsOn(rs, resp) == rs.request.variant = "server" /\ resp.stop_reason = "tool_use"

\* anthropic.messages.create resolves with a response that ends the run.
ModelAnswers(r, Responses) ==
    /\ run[r].pc = "awaiting_model"
    /\ \E resp \in Responses :
        /\ ~LoopsOn(run[r], resp)
        /\ run' = [run EXCEPT ![r] =
                Respond([run[r] EXCEPT !.response = resp], 200, TextOf(resp.content), "")]
    /\ UNCHANGED <<boot, mcpServers, serverIdx, processEnv, transport, mcpClients, mcpTools, attempts>>

\* anthropic.messages.create resolves with stop_reason tool_use: the assistant
\* turn is pushed and the tool_use blocks are dispatched.
ModelRequestsTools(r, Responses) ==
    /\ run[r].pc = "awaiting_model"
    /\ run[r].modelCalls < MaxModelCalls
    /\ \E resp \in Responses :
        /\ LoopsOn(run[r], resp)
        /\ run' = [run EXCEPT ![r] =
                Dispatch([run[r] EXCEPT !.prevSent = run[r].messages,
                                        !.response = resp,
                                        !.toolRounds = @ + 1,
                                        !.messages = Append(@, BlocksMessage("assistant", resp.content)),
                                        !.toolResults = <<>>,
                                        !.outcomes = <<>>],
                         1)]
    /\ UNCHANGED <<boot, mcpServers, serverIdx, processEnv, transport, mcpClients, mcpTools, attempts>>

\* Mutant: the rejection is swallowed and the text gathered so far is answered with a 200.
ModelFailsSwallowed(r, Messages) ==
    /\ run[r].pc = "awaiting_model"
    /\ \E message \in Messages :
        run' = [run EXCEPT ![r] =
                Respond([run[r] EXCEPT !.modelFailure = Field(message)],
                        200, TextOf(run[r].response.content), "")]
    /\ UNCHANGED <<boot, mcpServers, serverIdx, processEnv, transport, mcpClients, mcpTools, attempts>>

\* anthropic.messages.create rejects: callClaudeAgent throws, the handler answers 500.
ModelFails(r, Messages) ==
    /\ run[r].pc = "awaiting_model"
    /\ \E message \in Messages :
        run' = [run EXCEPT ![r] =
                Respond([run[r] EXCEPT !.modelFailure = Field(message)], 500, "", message)]
    /\ UNCHANGED <<boot, mcpServers, serverIdx, processEnv, transport, mcpClients, mcpTools, attempts>>

\* Mutant: a failed invocation is rethrown and ends the run with a 500.
AnsweredRethrows(rs, result, outcome) ==
    IF outcome.failed
    THEN Respond(rs, 500, "", outcome.message)
    ELSE Dispatch([rs EXCEPT !.toolResults = Append(@, result),
                             !.outcomes = Append(@, outcome)],
                  rs.blockIdx + 1)

\* Mutant: results are put in front of the earlier ones (unshift for push).
AnsweredUnshift(rs, result, outcome) ==
    Dispatch([rs EXCEPT !.toolResults = <<result>> \o @,
                        !.outcomes = <<outcome>> \o @,
                        !.toolFailures = IF outcome.failed THEN @ + 1 ELSE @],
             rs.blockIdx + 1)

\* The tool_use block has been answered: its result is pushed and the loop goes on.
Answered(rs, result, outcome) ==
    Dispatch([rs EXCEPT !.toolResults = Append(@, result),
                        !.outcomes = Append(@, outcome),
                        !.toolFailures = IF outcome.failed THEN @ + 1 ELSE @],
             rs.blockIdx + 1)

\* callMCPTool threw before reaching a provider (tool or client not found).
ToolRejected(r) ==
    /\ run[r].pc = "awaiting_tool"
    /\ run[r].pending.kind = "throw"
    /\ LET block == run[r].response.content[run[r].blockIdx]
           message == run[r].pending.message
       IN  run' = [run EXCEPT ![r] =
                Answered(run[r], ErrorResult(block, message), [message |-> message, failed |-> TRUE, raw |-> NoResult])]
    /\ UNCHANGED <<boot, mcpServers, serverIdx, processEnv, transport, mcpClients, mcpTools, attempts>>

\* client.callTool resolves.
ToolReturns(r, Results) ==
    /\ run[r].pc = "awaiting_tool"
    /\ run[r].pending.kind = "call"
    /\ \E result \in Results :
        LET block == run[r].response.content[run[r].blockIdx]
        IN  run' = [run EXCEPT ![r] =
                Answered(run[r], SuccessResult(block, result), [message |-> "", failed |-> FALSE, raw |-> result])]
    /\ UNCHANGED <<boot, mcpServers, serverIdx, processEnv, transport, mcpClients, mcpTools, attempts>>

\* client.callTool rejects.
ToolThrows(r, Messages) ==
    /\ run[r].pc = "awaiting_tool"
    /\ run[r].pending.kind = "call"
    /\ \E message \in Messages :
        LET block == run[r].response.content[run[r].blockIdx]
        IN  run' = [run EXCEPT ![r] =
                Answered(run[r], ErrorResult(block, message), [message |-> message, failed |-> TRUE, raw |-> NoResult])]
    /\ UNCHANGED <<boot, mcpServers, serverIdx, processEnv, transport, mcpClients, mcpTools, attempts>>

\* Mutant: the listing is built back to front.
ToolsListingReversed ==
    [i \in 1..Len(mcpTools) |-> [name |-> mcpTools[Len(mcpTools) + 1 - i].name]]

\* handleToolsRequest: the body of the answer, mcpTools.map(t => ({name, description})).
ToolsListing == [i \in 1..Len(mcpTools) |-> [name |-> mcpTools[i].name]]

\* GET /api/tools: handleToolsRequest answers 200 with the listing.
HandleToolsRequest(r) ==
    /\ boot = "listening"
    /\ run[r].pc = "idle"
    /\ run' = [run EXCEPT ![r] = [Respond(run[r], 200, "", "") EXCEPT !.listed = ToolsListing]]
    /\ UNCHANGED <<boot, mcpServers, serverIdx, processEnv, transport, mcpClients, mcpTools, attempts>>

-----------------------------------------------------------------------------
(* Startup specification: every configuration, environment and provider answer *)

InitMCP ==
    /\ boot = "start"
    /\ mcpServers = <<>>
    /\ serverIdx = 1
    /\ processEnv \in AllProcessEnvs
    /\ transport = NoTransport
    /\ mcpClients = {}
    /\ mcpTools = <<>>
    /\ attempts = <<>>
    /\ run = [r \in RunIds |-> IdleRun]

NextMCP ==
    \/ LoadMCPConfig(AllConfigs)
    \/ LoadMCPConfigFails
    \/ ConnectServer(AllCfgArgs, AllCfgEnvs)
    \/ ConnectFails(AllCfgArgs, AllCfgEnvs)
    \/ ListToolsReturns(AllToolLists)
    \/ ListToolsFails
    \/ Listen

SpecMCP == InitMCP /\ [][NextMCP]_vars

-----------------------------------------------------------------------------
(* The server and one request: a small registry, every kind of request,    *)
(* every model response of up to MaxBlocks blocks                          *)

AgentInputs == {Absent, Field("")} \cup {Field(a) : a \in AgentTypes \cup {"editor"}}
MessageInputs == {Absent, Field(""), Field("topic")}
ContextInputs == {Absent, Field("prior")}

Requests ==
    {req \in [message : MessageInputs, variant : Variants, bodyOk : BOOLEAN,
              agent : AgentInputs, context : ContextInputs] :
        ~req.bodyOk => (req.agent = Absent /\ req.message = Absent /\ req.context = Absent)}

ToolUseIds == {"t1", "t2"}
RequestedNames == {"a__c", "zzz"}
Blocks == {TextBlock("x")} \cup {ToolUseBlock(id, name, "q") : id \in ToolUseIds, name \in RequestedNames}

\* The ids of the tool_use blocks of one response are distinct.
DistinctIds(content) ==
    \A i, j \in 1..Len(content) :
        (i # j /\ IsToolUse(content[i]) /\ IsToolUse(content[j])) => content[i].id # content[j].id

Contents == {c \in SeqsUpTo(Blocks, MaxBlocks) : DistinctIds(c)}
Responses == [content : Contents, stop_reason : {"tool_use", "end_turn"}]

TextItem(text) == [text |-> text, type |-> "text"]
ProviderResults == {[content |-> <<TextItem("r")>>, hasContent |-> TRUE],
                    [content |-> <<>>, hasContent |-> FALSE]}
SearchOutcomes ==
    {SearchOutcome(k, <<>>) : k \in {"no_key", "not_ok", "no_web", "thrown", "results"}}
    \cup {SearchOutcome("results", <<[title |-> "T", description |-> "D", url |-> "U"]>>)}

Init ==
    /\ InitMCP
    /\ processEnv = [v \in EnvVarNames |-> <<"v">>]

Next ==
    \/ LoadMCPConfig({<<"a">>})
    \/ LoadMCPConfigFails
    \/ ConnectServer({<<>>}, {<<>>})
    \/ ConnectFails({<<>>}, {<<>>})
    \/ ListToolsReturns({<<"c">>})
    \/ ListToolsFails
    \/ Listen
    \/ HandleAgentRequest(1, Requests)
    \/ SearchCompletes(1, SearchOutcomes)
    \/ ModelAnswers(1, Responses)
    \/ ModelRequestsTools(1, Responses)
    \/ ModelFails(1, {"overloaded"})
    \/ ToolRejected(1)
    \/ ToolReturns(1, ProviderResults)
    \/ ToolThrows(1, {"boom"})

Spec == Init /\ [][Next]_vars

-----------------------------------------------------------------------------
(* The same server with responses rich in text blocks (empty ones too) and *)
(* poor in tool_use blocks: what a run returns                             *)

ResultRequests ==
    {req \in Requests : req.bodyOk /\ req.agent.value \in AgentTypes /\ req.message = Field("topic")}

ResultBlocks == {TextBlock("x"), TextBlock(""), ToolUseBlock("t1", "a__c", "q")}
ResultResponses ==
    [content : {c \in SeqsUpTo(ResultBlocks, MaxBlocks) : DistinctIds(c)},
     stop_reason : {"tool_use", "end_turn"}]

NextResult ==
    \/ LoadMCPConfig({<<"a">>})
    \/ LoadMCPConfigFails
    \/ ConnectServer({<<>>}, {<<>>})
    \/ ConnectFails({<<>>}, {<<>>})
    \/ ListToolsReturns({<<"c">>})
    \/ ListToolsFails
    \/ Listen
    \/ HandleAgentRequest(1, ResultRequests)
    \/ SearchCompletes(1, SearchOutcomes)
    \/ ModelAnswers(1, ResultResponses)
    \/ ModelRequestsTools(1, ResultResponses)
    \/ ModelFails(1, {"overloaded"})
    \/ ToolRejected(1)
    \/ ToolReturns(1, ProviderResults)
    \/ ToolThrows(1, {"boom"})

SpecResult == Init /\ [][NextResult]_vars

-----------------------------------------------------------------------------
(* The same server with every kind of request body, keys of                *)
(* Object.prototype as agent among them, and few model responses: request  *)
(* validation                                                              *)

HttpRequests ==
    Requests \cup
    [message : MessageInputs, variant : Variants, bodyOk : {TRUE},
     agent : {Field(k) : k \in ObjectPrototypeKeys}, context : ContextInputs] \cup
    [message : {Field("topic")}, variant : Variants, bodyOk : {TRUE},
     agent : {Field("analyzer")}, context : {Field("")}]

HttpResponses ==
    [content : {<<>>, <<TextBlock("x")>>, <<ToolUseBlock("t1", "a__c", "q")>>},
     stop_reason : {"tool_use", "end_turn"}]

NextHttp ==
    \/ LoadMCPConfig({<<"a">>})
    \/ LoadMCPConfigFails
    \/ ConnectServer({<<>>}, {<<>>})
    \/ ConnectFails({<<>>}, {<<>>})
    \/ ListToolsReturns({<<"c">>})
    \/ ListToolsFails
    \/ Listen
    \/ HandleAgentRequest(1, HttpRequests)
    \/ SearchCompletes(1, SearchOutcomes)
    \/ ModelAnswers(1, HttpResponses)
    \/ ModelRequestsTools(1, HttpResponses)
    \/ ModelFails(1, {"overloaded"})
    \/ ToolRejected(1)
    \/ ToolReturns(1, ProviderResults)
    \/ ToolThrows(1, {"boom"})

SpecHttp == Init /\ [][NextHttp]_vars

-----------------------------------------------------------------------------
(* The server over every configuration and every tool list, a researcher   *)
(* whose model asks for any catalog name or an unknown one, and a client   *)
(* asking for the tool listing: the registry in use                        *)

RegistryRequests ==
    {req \in Requests : req.variant = "server" /\ req.bodyOk /\ req.agent = Field("researcher")
                         /\ req.message = Field("topic") /\ req.context = Absent}

RegistryNames ==
    {QualifiedName(serverName, toolName) : serverName \in ServerNames, toolName \in LocalToolNames}
    \cup {"zzz"}

RegistryContents ==
    {<<TextBlock("x")>>}
    \cup {<<ToolUseBlock("t1", name, "q")>> : name \in RegistryNames}
    \cup {<<ToolUseBlock("t1", "zzz", "q"), ToolUseBlock("t2", "b__c", "p")>>}

RegistryResponses ==
    [content : RegistryContents, stop_reason : {"tool_use"}]
    \cup [content : {<<TextBlock("x")>>}, stop_reason : {"end_turn"}]

RegistryResults == {[content |-> <<TextItem("r")>>, hasContent |-> TRUE]}

NextRegistry ==
    \/ LoadMCPConfig(AllConfigs)
    \/ LoadMCPConfigFails
    \/ ConnectServer({<<>>}, {<<>>})
    \/ ConnectFails({<<>>}, {<<>>})
    \/ ListToolsReturns(AllToolLists)
    \/ ListToolsFails
    \/ Listen
    \/ HandleAgentRequest(1, RegistryRequests)
    \/ ModelAnswers(1, RegistryResponses)
    \/ ModelRequestsTools(1, RegistryResponses)
    \/ ToolRejected(1)
    \/ ToolReturns(1, RegistryResults)
    \/ HandleToolsRequest(2)

SpecRegistry == Init /\ [][NextRegistry]_vars

-----------------------------------------------------------------------------
(* Two requests served at once, each with inputs of its own: every text,   *)
(* tool_use id, argument and provider answer of run r ends in r            *)

Tag(r) == ToString(r)

RequestsOf(r) ==
    [message : {Field("topic" \o Tag(r))}, variant : {"server"}, bodyOk : {TRUE},
     agent : {Field("researcher")}, context : {Absent, Field("prior" \o Tag(r))}]

ContentsOf(r) ==
    {<<TextBlock("x" \o Tag(r))>>,
     <<ToolUseBlock("t" \o Tag(r), "a__c", "q" \o Tag(r))>>,
     <<TextBlock("x" \o Tag(r)), ToolUseBlock("t" \o Tag(r), "zzz", "q" \o Tag(r))>>}

ResponsesOf(r) == [content : ContentsOf(r), stop_reason : {"tool_use", "end_turn"}]

ProviderResultsOf(r) == {[content |-> <<TextItem("r" \o Tag(r))>>, hasContent |-> TRUE]}

NextConcurrent ==
    \/ LoadMCPConfig({<<"a">>})
    \/ LoadMCPConfigFails
    \/ ConnectServer({<<>>}, {<<>>})
    \/ ConnectFails({<<>>}, {<<>>})
    \/ ListToolsReturns({<<"c">>})
    \/ ListToolsFails
    \/ Listen
    \/ \E r \in RunIds :
        \/ HandleAgentRequest(r, RequestsOf(r))
        \/ ModelAnswers(r, ResponsesOf(r))
        \/ ModelRequestsTools(r, ResponsesOf(r))
        \/ ModelFails(r, {"overloaded" \o Tag(r)})
        \/ ToolRejected(r)
        \/ ToolReturns(r, ProviderResultsOf(r))
        \/ ToolThrows(r, {"boom" \o Tag(r)})

SpecConcurrent == Init /\ [][NextConcurrent]_vars

-----------------------------------------------------------------------------
(* A researcher whose tool answers with every mix of text segments (empty  *)
(* ones too) and other segments: what a successful invocation puts in the  *)
(* log                                                                     *)

ResultItems == {TextItem("r"), TextItem("s"), TextItem(""), [text |-> "", type |-> "image"]}

RichProviderResults ==
    {[content |-> c, hasContent |-> TRUE] : c \in SeqsUpTo(ResultItems, MaxItems)} \cup {NoResult}

ToolResultResponses ==
    [content : {<<TextBlock("x")>>,
                <<ToolUseBlock("t1", "a__c", "q")>>,
                <<ToolUseBlock("t1", "a__c", "q"), ToolUseBlock("t2", "a__c", "p")>>},
     stop_reason : {"tool_use", "end_turn"}]

NextToolResult ==
    \/ LoadMCPConfig({<<"a">>})
    \/ LoadMCPConfigFails
    \/ ConnectServer({<<>>}, {<<>>})
    \/ ConnectFails({<<>>}, {<<>>})
    \/ ListToolsReturns({<<"c">>})
    \/ ListToolsFails
    \/ Listen
    \/ HandleAgentRequest(1, RegistryRequests)
    \/ ModelAnswers(1, ToolResultResponses)
    \/ ModelRequestsTools(1, ToolResultResponses)
    \/ ModelFails(1, {"overloaded"})
    \/ ToolRejected(1)
    \/ ToolReturns(1, RichProviderResults)
    \/ ToolThrows(1, {"boom"})

SpecToolResult == Init /\ [][NextToolResult]_vars

-----------------------------------------------------------------------------
(* Properties *)

ToolUsesOf(content) == SelectSeq(content, IsToolUse)
IdsOfUses(content) == [i \in 1..Len(ToolUsesOf(content)) |-> ToolUsesOf(content)[i].id]
IdsOfResults(results) == [i \in 1..Len(results) |-> results[i].tool_use_id]
Occurrences(seq, x) == Cardinality({i \in 1..Len(seq) : seq[i] = x})

\* The run has been answered tool_use and has just issued the next model call.
CalledAfterTools(r) == run[r].pc = "awaiting_model" /\ run[r].toolRounds > 0

\* C1: when a model call is issued after a tool_use response, the log is the
\* log that response answered, extended by the assistant turn holding the
\* response and by one user turn whose tool_result blocks answer the
\* response's tool_use blocks one for one: every id is answered as often as it
\* is used and no other id is answered.
C1_ToolResultsAnswerToolUses ==
    \A r \in RunIds :
        CalledAfterTools(r) =>
            LET log == run[r].messages
                n == Len(log)
                content == run[r].response.content
            IN  /\ n = Len(run[r].prevSent) + 2
                /\ log[n - 1] = BlocksMessage("assistant", content)
                /\ log[n].role = "user"
                /\ log[n].kind = "blocks"
                /\ Len(log[n].blocks) = Len(ToolUsesOf(content))
                /\ \A i \in 1..Len(log[n].blocks) :
                    /\ log[n].blocks[i].type = "tool_result"
                    /\ Occurrences(IdsOfResults(log[n].blocks), log[n].blocks[i].tool_use_id)
                       = Occurrences(IdsOfUses(content), log[n].blocks[i].tool_use_id)

\* C1 witness: a second model call after a response with two tool_use blocks,
\* one rejected by callMCPTool and one answered by the provider.
C1_Witness ==
    \E r \in RunIds :
        /\ CalledAfterTools(r)
        /\ Len(ToolUsesOf(run[r].response.content)) = 2
        /\ \E i, j \in 1..Len(run[r].outcomes) : run[r].outcomes[i].failed /\ ~run[r].outcomes[j].failed

\* C2: a step that ends a tool invocation never ends the run: it appends one
\* tool_result, which for a failed invocation has is_error true and content
\* "Error: " followed by the failure message, writes no HTTP response, and
\* leaves the run awaiting the next tool_use block's invocation or, when none
\* is left, the next model call.
C2_ToolFailureContained ==
    [][\A r \in RunIds :
        run[r].pc = "awaiting_tool" =>
            /\ run'[r].status = 0
            /\ Len(run'[r].toolResults) = Len(run[r].toolResults) + 1
            /\ Len(run'[r].outcomes) = Len(run'[r].toolResults)
            /\ LET k == Len(run'[r].toolResults)
                   block == run[r].response.content[run[r].blockIdx]
               IN  /\ run'[r].toolResults[k].tool_use_id = block.id
                   /\ run'[r].outcomes[k].failed =>
                        /\ run'[r].toolResults[k].is_error
                        /\ run'[r].toolResults[k].content = "Error: " \o run'[r].outcomes[k].message
                   /\ (run[r].pending.kind = "throw") => run'[r].outcomes[k].failed
            /\ IF NextToolUse(run[r].response.content, run[r].blockIdx + 1) # 0
               THEN run'[r].pc = "awaiting_tool" /\ run'[r].modelCalls = run[r].modelCalls
               ELSE run'[r].pc = "awaiting_model" /\ run'[r].modelCalls = run[r].modelCalls + 1
      ]_vars

\* C2 witness: the first of two invocations failed, the second was still made
\* and the next model call has been issued.
C2_Witness ==
    \E r \in RunIds :
        /\ CalledAfterTools(r)
        /\ Len(run[r].outcomes) = 2
        /\ run[r].outcomes[1].failed
        /\ run[r].toolResults[1].is_error

\* C3: the tool_result blocks are in the order of their tool_use blocks: while
\* the blocks are dispatched the ids answered so far are a prefix of the ids
\* used, and the user turn sent with the next model call lists exactly the ids
\* used, in their order.
C3_ResultsInToolUseOrder ==
    \A r \in RunIds :
        /\ run[r].pc = "awaiting_tool" =>
            LET used == IdsOfUses(run[r].response.content)
                answered == IdsOfResults(run[r].toolResults)
            IN  /\ Len(answered) < Len(used)
                /\ answered = SubSeq(used, 1, Len(answered))
        /\ CalledAfterTools(r) =>
            IdsOfResults(run[r].messages[Len(run[r].messages)].blocks)
                = IdsOfUses(run[r].response.content)

\* C3 witness: tool_use blocks t2 then t1, the first failed and the second
\* succeeded, answered t2 then t1.
C3_Witness ==
    \E r \in RunIds :
        /\ CalledAfterTools(r)
        /\ IdsOfUses(run[r].response.content) = <<"t2", "t1">>
        /\ run[r].outcomes[1].failed
        /\ ~run[r].outcomes[2].failed
        /\ IdsOfResults(run[r].toolResults) = <<"t2", "t1">>

AllDistinct(seq) == \A i, j \in 1..Len(seq) : i # j => seq[i] # seq[j]

\* C4: every name of the tool catalog is distinct from every other.
C4_CatalogNamesDistinct ==
    AllDistinct([i \in 1..Len(mcpTools) |-> mcpTools[i].name])

\* C5: the model calls of one run are bounded by a fixed maximum, beyond which
\* the run fails with TurnLimitExceeded: whatever maximum is taken below the
\* depth the exploration follows a run to, a run that has issued that many
\* model calls has ended with that failure.
C5_TurnLimitEnforced ==
    \A r \in RunIds :
        run[r].modelCalls >= MaxModelCalls =>
            (run[r].pc = "responded" /\ run[r].error = "TurnLimitExceeded")

HasText(content) == \E i \in 1..Len(content) : IsText(content[i])
HasNonEmptyText(content) == \E i \in 1..Len(content) : IsText(content[i]) /\ content[i].text # ""
TextBlockCount(content) == Cardinality({i \in 1..Len(content) : IsText(content[i])})

\* The run was answered tool_use once, then a final response, and returned.
DoneAfterOneRound(r) ==
    run[r].pc = "responded" /\ run[r].status = 200 /\ run[r].toolRounds = 1

\* C6 as stated: a run answered tool_use and then a normal stop reason is done
\* after exactly two model calls with a non-empty result.
C6_NonEmptyResult ==
    \A r \in RunIds :
        DoneAfterOneRound(r) => (run[r].modelCalls = 2 /\ run[r].result # "")

\* C6 as amended: such a run is done after exactly two model calls, whatever
\* the tools did, and its result is non-empty exactly when the second response
\* holds a non-empty text block or more than one text block.
C6_TwoCallsThenDone ==
    \A r \in RunIds :
        DoneAfterOneRound(r) =>
            /\ run[r].modelCalls = 2
            /\ (run[r].result # "") <=>
                    (HasNonEmptyText(run[r].response.content)
                     \/ TextBlockCount(run[r].response.content) > 1)

\* C6 witness: done after one round in which a tool failed, with a non-empty
\* result taken from a response whose first text block is empty.
C6_Witness ==
    \E r \in RunIds :
        /\ DoneAfterOneRound(r)
        /\ run[r].toolFailures > 0
        /\ run[r].result # ""
        /\ run[r].response.content[1] = TextBlock("")

\* C7: a run of an agent type other than researcher makes every model call
\* without tools; a call that is given tools is a researcher's, the tools are
\* the whole catalog and the catalog is not empty; and a researcher of
\* server.js is given the catalog whenever it is not empty.
C7_ToolsForResearcherOnly ==
    \A r \in RunIds :
        \A k \in 1..Len(run[r].calls) :
            /\ run[r].request.agent.value # "researcher" => ~run[r].calls[k].defined
            /\ run[r].calls[k].defined =>
                /\ run[r].request.agent.value = "researcher"
                /\ run[r].calls[k].tools = GetAnthropicTools
                /\ Len(mcpTools) > 0
            /\ (run[r].request.variant = "server" /\ run[r].request.agent.value = "researcher"
                /\ Len(mcpTools) > 0) => run[r].calls[k].defined

\* C7 witness: an analyzer of server.js has made its second model call, after
\* a tool round, while the catalog is not empty.
C7_Witness ==
    \E r \in RunIds :
        /\ run[r].request.agent.value = "analyzer"
        /\ Len(run[r].calls) = 2
        /\ Len(mcpTools) > 0

RECURSIVE ExpectedCatalog(_)
ExpectedCatalog(k) ==
    IF k = 0 THEN <<>>
    ELSE ExpectedCatalog(k - 1) \o
         (IF attempts[k].connected /\ attempts[k].listed
          THEN [i \in 1..Len(attempts[k].tools) |->
                    [name |-> attempts[k].serverName \o "__" \o attempts[k].tools[i],
                     _serverName |-> attempts[k].serverName,
                     _originalName |-> attempts[k].tools[i]]]
          ELSE <<>>)

\* C8: a provider's failure at connect or at listTools never stops startup:
\* once the configuration is loaded startup does not crash, initializeMCP
\* returns only after every configured provider has been attempted, in order,
\* the server can then start listening, and the catalog then holds the tools of
\* the providers that connected and listed, and nothing else.
C8_ProviderFailuresNotFatal ==
    /\ (boot = "crashed") => (Len(mcpServers) = 0 /\ Len(attempts) = 0)
    /\ (boot = "initialized") => ENABLED Listen
    /\ (boot \in {"initialized", "listening"}) =>
        /\ Len(attempts) = Len(mcpServers)
        /\ \A k \in 1..Len(attempts) : attempts[k].serverName = mcpServers[k]
        /\ mcpTools = ExpectedCatalog(Len(attempts))

\* C8 witness: the server listens although the first provider failed, and the
\* catalog holds the tools of the second.
C8_Witness ==
    /\ boot = "listening"
    /\ Len(attempts) = 2
    /\ ~attempts[1].listed
    /\ attempts[2].listed
    /\ Len(attempts[2].tools) > 0
    /\ Len(mcpTools) = Len(attempts[2].tools)

\* What the claim says a configured value is resolved to
ResolvedAsClaimed(configured, resolved) ==
    IF StartsWithDollar(configured) /\ Tail(configured) \in DOMAIN processEnv
    THEN resolved = processEnv[Tail(configured)]
    ELSE resolved = configured

\* C9: every configured args or env value that begins with '$' reaches the
\* transport as the value of the named environment variable when that variable
\* is defined and as the configured string when it is not, and every other
\* value reaches it unchanged.
C9_ConfigSubstitution ==
    /\ Len(transport.args) = Len(transport.cfgArgs)
    /\ \A i \in 1..Len(transport.cfgArgs) :
        ResolvedAsClaimed(transport.cfgArgs[i], transport.args[i])
    /\ \A k \in DOMAIN transport.cfgEnv :
        /\ k \in DOMAIN transport.env
        /\ ResolvedAsClaimed(transport.cfgEnv[k], transport.env[k])

RequestReceived(r) == run[r].request.variant # ""

\* C10: a request whose agent is missing or is none of researcher, analyzer,
\* writer, or whose message is missing, is answered 400 and makes no model
\* call, no tool call and no search, in every variant.
C10_InvalidRequestRejected ==
    \A r \in RunIds :
        (/\ RequestReceived(r)
         /\ run[r].request.bodyOk
         /\ \/ Falsy(run[r].request.agent)
            \/ run[r].request.agent.value \notin AgentTypes
            \/ Falsy(run[r].request.message)) =>
            /\ run[r].status = 400
            /\ run[r].modelCalls = 0
            /\ run[r].toolCalls = 0
            /\ run[r].searches = 0

\* C11: a rejected model call, the first one or one after tool rounds, ends
\* the run: the request is answered once, with status 500 and the rejection's
\* message as error and with no result, nothing is left pending, and from then
\* on the run issues no model call, no tool call and no second response.
C11_ModelFailureAborts ==
    /\ [](\A r \in RunIds :
            run[r].modelFailure.defined =>
                /\ run[r].pc = "responded"
                /\ run[r].responses = 1
                /\ run[r].status = 500
                /\ run[r].error = run[r].modelFailure.value
                /\ run[r].result = ""
                /\ run[r].pending = NoPending)
    /\ [][\A r \in RunIds :
            run[r].modelFailure.defined =>
                /\ run'[r].modelCalls = run[r].modelCalls
                /\ run'[r].toolCalls = run[r].toolCalls
                /\ run'[r].responses = run[r].responses
                /\ run'[r].status = run[r].status]_vars

\* A model call issued after a tool round was rejected.
C11_Witness ==
    \E r \in RunIds :
        /\ run[r].modelFailure.defined
        /\ run[r].toolRounds >= 1
        /\ run[r].toolCalls >= 1
        /\ run[r].status = 500

\* C12: in the server and in the serverless variant without search, the
\* history the first model call is sent is the context as a user turn, the
\* fixed acknowledgment as an assistant turn and the message as a user turn
\* when the request carries a (non-empty) context, and the message as a user
\* turn alone when it carries none.
C12_SeededHistory ==
    \A r \in RunIds :
        (/\ run[r].pc = "awaiting_model"
         /\ run[r].modelCalls = 1
         /\ run[r].request.variant \in {"server", "api"}) =>
            LET context == run[r].request.context
                message == run[r].request.message.value
                userTurn(text) == [role |-> "user", text |-> text, kind |-> "string", blocks |-> <<>>]
                acknowledgment ==
                    [role |-> "assistant", text |-> Acknowledgment, kind |-> "string", blocks |-> <<>>]
            IN  IF context.defined /\ context.value # ""
                THEN run[r].messages = <<userTurn(context.value), acknowledgment, userTurn(message)>>
                ELSE run[r].messages = <<userTurn(message)>>

\* The first model call of a request with a context is in flight.
C12_Witness ==
    \E r \in RunIds :
        /\ run[r].pc = "awaiting_model"
        /\ run[r].modelCalls = 1
        /\ run[r].request.variant = "api"
        /\ run[r].request.context = Field("prior")
        /\ Len(run[r].messages) = 3

\* The descriptors of the catalog that carry the name.
Registered(toolName) == {i \in 1..Len(mcpTools) : mcpTools[i].name = toolName}

\* The step starts an invocation of callMCPTool by run r.
Invokes(r) ==
    /\ run'[r].pc = "awaiting_tool"
    /\ run[r].pc # "awaiting_tool" \/ run'[r].blockIdx # run[r].blockIdx

\* C13: an invocation for a name no descriptor carries fails with "Tool not
\* found" and reaches no provider; an invocation for a name of the catalog
\* issues exactly one call, to the provider of a descriptor carrying that
\* name, with that descriptor's local name and the arguments given, and that
\* provider has a client; it fails with "MCP client not found" only when the
\* descriptor's provider has none.
C13_InvocationRouted ==
    /\ [](\A r \in RunIds :
            run[r].pc = "awaiting_tool" =>
                LET block == run[r].response.content[run[r].blockIdx]
                    call == run[r].pending
                IN  IF Registered(block.name) = {}
                    THEN call.kind = "throw" /\ call.message = "Tool not found: " \o block.name
                    ELSE \E i \in Registered(block.name) :
                            \/ /\ call.kind = "call"
                               /\ call.serverName = mcpTools[i]._serverName
                               /\ call.serverName \in mcpClients
                               /\ call.name = mcpTools[i]._originalName
                               /\ call.arguments = block.input
                            \/ /\ call.kind = "throw"
                               /\ mcpTools[i]._serverName \notin mcpClients
                               /\ call.message = "MCP client not found: " \o mcpTools[i]._serverName)
    /\ [][\A r \in RunIds :
            run'[r].toolCalls =
                run[r].toolCalls + (IF Invokes(r) /\ run'[r].pending.kind = "call" THEN 1 ELSE 0)]_vars

\* After an invocation for an unknown name was rejected, one for a tool of the
\* second provider is forwarded under a local name that differs from the
\* catalog name.
C13_Witness ==
    \E r \in RunIds :
        /\ run[r].pc = "awaiting_tool"
        /\ run[r].blockIdx = 2
        /\ run[r].toolFailures = 1
        /\ run[r].pending.kind = "call"
        /\ Len(mcpServers) = 2
        /\ run[r].pending.serverName = mcpServers[2]
        /\ run[r].pending.name # run[r].response.content[2].name

\* The message is one run r can have pushed from its own request, its own
\* model responses and the outcomes of its own invocations.
OwnMessage(r, m) ==
    IF m.kind = "string"
    THEN \/ m.role = "user" /\ m.text \in {run[r].request.message.value, run[r].request.context.value}
         \/ m.role = "assistant" /\ m.text = Acknowledgment
    ELSE IF m.role = "assistant"
    THEN m.blocks \in ContentsOf(r)
    ELSE \A i \in 1..Len(m.blocks) :
            /\ m.blocks[i].tool_use_id = "t" \o Tag(r)
            /\ m.blocks[i].content \in
                    {"r" \o Tag(r), "Error: boom" \o Tag(r),
                     "Error: Tool not found: zzz", "Error: Tool not found: a__c"}

\* The text the final response of run r holds (at most one text block here).
OwnText(r) ==
    IF \E i \in 1..Len(run[r].response.content) : run[r].response.content[i].type = "text"
    THEN "x" \o Tag(r)
    ELSE ""

\* C14: of two runs served at once, each log holds only messages of that
\* run's own request, own model responses and own tool results, each result
\* is the text of that run's own final response, as it is for the run alone,
\* and a step of one run leaves the other run as it was.
C14_RunsIsolated ==
    /\ [](\A r \in RunIds :
            /\ \A k \in 1..Len(run[r].messages) : OwnMessage(r, run[r].messages[k])
            /\ (run[r].pc = "responded" /\ run[r].status = 200) =>
                    /\ run[r].response \in ResponsesOf(r)
                    /\ run[r].result = OwnText(r)
            /\ (run[r].pc = "responded" /\ run[r].status = 500) =>
                    run[r].error = "overloaded" \o Tag(r))
    /\ [][\A r, q \in RunIds : (r # q /\ run'[r] # run[r]) => run'[q] = run[q]]_vars

\* Both runs are in their loops at once: one awaits the model after a tool
\* round while the other awaits a provider.
C14_Witness ==
    /\ run[1].pc = "awaiting_model"
    /\ run[1].toolRounds = 1
    /\ Len(run[1].messages) >= 3
    /\ run[2].pc = "awaiting_tool"
    /\ run[2].pending.kind = "call"

\* C15: a request (an agent request or a tool listing) is served only once
\* the server listens, which it does only after initializeMCP has gone through
\* every provider of the configuration; from then on no step, of an agent run,
\* a tool invocation or a tool listing, changes mcpTools or mcpClients.
C15_RegistryBuiltOnce ==
    /\ []((boot = "listening" \/ \E r \in RunIds : run[r].pc # "idle") =>
            /\ boot = "listening"
            /\ serverIdx > Len(mcpServers)
            /\ Len(attempts) = Len(mcpServers)
            /\ \A k \in 1..Len(attempts) : attempts[k].serverName = mcpServers[k])
    /\ [][boot = "listening" =>
            /\ boot' = "listening"
            /\ mcpTools' = mcpTools
            /\ mcpClients' = mcpClients]_vars

\* With a catalog of two providers in place, a tool listing has been answered
\* and an agent run has gone through a tool round.
C15_Witness ==
    /\ Len(mcpServers) = 2
    /\ Len(mcpTools) >= 2
    /\ run[2].pc = "responded"
    /\ Len(run[2].listed) >= 2
    /\ run[1].toolRounds = 1
    /\ run[1].toolCalls >= 1

\* The text blocks among the first n blocks of content, in order, with a
\* newline between one and the next.
RECURSIVE TextUpTo(_, _)
TextUpTo(content, n) ==
    IF n = 0 THEN ""
    ELSE IF content[n].type # "text" THEN TextUpTo(content, n - 1)
    ELSE IF \A i \in 1..(n - 1) : content[i].type # "text" THEN content[n].text
    ELSE TextUpTo(content, n - 1) \o "\n" \o content[n].text

\* C16: the result of a run that is done is made of the last response alone,
\* the one whose stop reason ended the loop: its text blocks in order, joined
\* by newlines; its other blocks, and the text of the responses that asked for
\* tools before it, add nothing.
C16_ResultIsFinalText ==
    \A r \in RunIds :
        (run[r].pc = "responded" /\ run[r].status = 200) =>
            /\ ~LoopsOn(run[r], run[r].response)
            /\ run[r].modelCalls = run[r].toolRounds + 1
            /\ run[r].result = TextUpTo(run[r].response.content, Len(run[r].response.content))

\* A run is done after a tool round with a final response that holds a
\* tool_use block before its text block.
C16_Witness ==
    \E r \in RunIds :
        /\ run[r].pc = "responded"
        /\ run[r].status = 200
        /\ run[r].toolRounds = 1
        /\ run[r].response.content = <<ToolUseBlock("t1", "a__c", "q"), TextBlock("x")>>
        /\ run[r].result = "x"

\* The number of tools registered by the providers attempted before the k-th.
RECURSIVE RegisteredBefore(_)
RegisteredBefore(k) ==
    IF k <= 1 THEN 0
    ELSE RegisteredBefore(k - 1)
         + (IF attempts[k - 1].listed THEN Len(attempts[k - 1].tools) ELSE 0)

\* names lists the tools of the providers that registered, each at the place
\* its provider's rank in the configuration and its rank in the provider's
\* listing give it, and nothing else.
ListsRegistry(names) ==
    /\ Len(names) = RegisteredBefore(Len(attempts) + 1)
    /\ \A k \in 1..Len(attempts) :
        attempts[k].listed =>
            \A i \in 1..Len(attempts[k].tools) :
                names[RegisteredBefore(k) + i] =
                    mcpServers[k] \o "__" \o attempts[k].tools[i]

\* C17: once the server listens, getAnthropicTools and the answer to GET
\* /api/tools both list every tool of every provider that registered exactly
\* once: provider after provider in the order of the configuration, and within
\* a provider in the order of its listing.
C17_CatalogListing ==
    boot = "listening" =>
        /\ ListsRegistry(GetAnthropicTools)
        /\ \A r \in RunIds :
            (run[r].pc = "responded" /\ run[r].request = NoRequest) =>
                /\ run[r].status = 200
                /\ ListsRegistry([i \in 1..Len(run[r].listed) |-> run[r].listed[i].name])
        /\ \A r \in RunIds :
            \A k \in 1..Len(run[r].calls) :
                run[r].calls[k].defined => ListsRegistry(run[r].calls[k].tools)

\* Two providers registered two tools each, in different orders, and both the
\* tool listing and a researcher's model call carry the four.
C17_Witness ==
    /\ boot = "listening"
    /\ Len(attempts) = 2
    /\ attempts[1].tools = <<"b__c", "c">>
    /\ attempts[2].tools = <<"c", "b__c">>
    /\ Len(run[2].listed) = 4
    /\ Len(run[1].calls) >= 1
    /\ Len(run[1].calls[1].tools) = 4

\* The text of the text segments among the first n segments, in order.
RECURSIVE SegmentsText(_, _)
SegmentsText(items, n) ==
    IF n = 0 THEN ""
    ELSE SegmentsText(items, n - 1) \o (IF items[n].type = "text" THEN items[n].text ELSE "")

\* C18: the tool_result of an invocation that succeeded is not marked as an
\* error, and its content is the text of the text segments of the provider's
\* answer, in order, when the answer holds a text segment, and the serialized
\* answer only when it holds none.
C18_TextOrSerialized ==
    \A r \in RunIds :
        \A k \in 1..Len(run[r].toolResults) :
            ~run[r].outcomes[k].failed =>
                LET raw == run[r].outcomes[k].raw
                    hasText == \E i \in 1..Len(raw.content) : raw.content[i].type = "text"
                IN  /\ ~run[r].toolResults[k].is_error
                    /\ run[r].toolResults[k].content =
                            IF hasText THEN SegmentsText(raw.content, Len(raw.content))
                            ELSE Stringify(raw)

IsPrefix(s, t) == Len(s) <= Len(t) /\ SubSeq(t, 1, Len(s)) = s

\* C19: while a run lasts its log only grows at the end, and the log a model
\* call after the first is sent is the log the call before it was sent, kept
\* as it was, followed by exactly two messages: the assistant turn holding
\* that call's response as received, then one user turn of tool results.
C19_LogAppendOnly ==
    /\ [](\A r \in RunIds :
            CalledAfterTools(r) =>
                LET log == run[r].messages
                    sent == run[r].prevSent
                IN  /\ Len(log) = Len(sent) + 2
                    /\ SubSeq(log, 1, Len(sent)) = sent
                    /\ log[Len(sent) + 1] =
                            [role |-> "assistant", text |-> "", kind |-> "blocks",
                             blocks |-> run[r].response.content]
                    /\ log[Len(sent) + 2].role = "user"
                    /\ log[Len(sent) + 2].kind = "blocks"
                    /\ log[Len(sent) + 2].blocks = run[r].toolResults
                    /\ \A i \in 1..Len(run[r].toolResults) :
                            run[r].toolResults[i].type = "tool_result")
    /\ [][\A r \in RunIds :
            (run[r].pc # "idle" /\ run'[r].pc # "responded") =>
                IsPrefix(run[r].messages, run'[r].messages)]_vars

\* The second model call of a run seeded with a context: five messages, the
\* last one holding two tool results.
C19_Witness ==
    \E r \in RunIds :
        /\ CalledAfterTools(r)
        /\ run[r].modelCalls = 2
        /\ Len(run[r].prevSent) = 3
        /\ Len(run[r].messages) = 5
        /\ Len(run[r].messages[5].blocks) = 2

\* C20: in the server, callMCPTool is invoked only for a tool_use block of a
\* response whose stop reason is tool_use, once per such block and in the
\* order of the blocks; a run whose model has not asked for tools has made at
\* most one model call and no invocation; and a run that is done has made one
\* model call more than it received responses with stop reason tool_use, the
\* last response not being one of them.
C20_ToolsOnlyOnRequest ==
    \A r \in RunIds :
        run[r].request.variant = "server" =>
            /\ run[r].pc = "awaiting_tool" =>
                    LET content == run[r].response.content
                        i == run[r].blockIdx
                    IN  /\ run[r].response.stop_reason = "tool_use"
                        /\ i \in 1..Len(content)
                        /\ content[i].type = "tool_use"
                        /\ Len(run[r].toolResults) + 1 =
                                Cardinality({j \in 1..i : content[j].type = "tool_use"})
            /\ run[r].toolRounds = 0 =>
                    /\ run[r].modelCalls <= 1
                    /\ run[r].toolCalls = 0
                    /\ run[r].toolFailures = 0
                    /\ run[r].pending = NoPending
            /\ (run[r].pc = "responded" /\ run[r].status = 200) =>
                    /\ run[r].response.stop_reason # "tool_use"
                    /\ run[r].modelCalls = run[r].toolRounds + 1

\* A researcher with a catalog is done after one model call and no invocation,
\* its only response holding a tool_use block under a normal stop reason.
C20_Witness ==
    \E r \in RunIds :
        /\ run[r].request.variant = "server"
        /\ run[r].request.agent = Field("researcher")
        /\ Len(mcpTools) > 0
        /\ run[r].pc = "responded"
        /\ run[r].status = 200
        /\ run[r].modelCalls = 1
        /\ run[r].toolCalls = 0
        /\ run[r].response.stop_reason = "end_turn"
        /\ \E i \in 1..Len(run[r].response.content) : run[r].response.content[i].type = "tool_use"

\* C21: whenever a model call is in flight, with or without a context and
\* after any tool rounds, the log it was sent starts with a user turn, ends
\* with a user turn and alternates between user and assistant turns.
C21_RolesAlternate ==
    \A r \in RunIds :
        run[r].pc = "awaiting_model" =>
            LET log == run[r].messages
            IN  /\ Len(log) >= 1
                /\ Len(log) % 2 = 1
                /\ \A k \in 1..Len(log) :
                        log[k].role = IF k % 2 = 1 THEN "user" ELSE "assistant"

\* The second model call of a run seeded with a context, after a response that
\* asked for tools without holding a tool_use block: the last user turn is
\* empty.
C21_Witness ==
    \E r \in RunIds :
        /\ run[r].pc = "awaiting_model"
        /\ run[r].toolRounds = 1
        /\ Len(run[r].messages) = 5
        /\ run[r].messages[2].text = Acknowledgment
        /\ run[r].messages[4].role = "assistant"
        /\ run[r].messages[5].role = "user"
        /\ run[r].messages[5].blocks = <<>>

\* C22: every tool of the catalog is a tool of a provider that has a client
\* (a provider with a client may have no tool), the clients are those of the
\* providers that connected, and no invocation of callMCPTool fails with "MCP
\* client not found": one that throws before reaching a provider throws "Tool
\* not found".
C22_ToolsHaveClients ==
    /\ \A i \in 1..Len(mcpTools) : mcpTools[i]._serverName \in mcpClients
    /\ boot \in {"initialized", "listening"} =>
            mcpClients = {attempts[k].serverName : k \in {n \in 1..Len(attempts) : attempts[n].connected}}
    /\ \A r \in RunIds :
        run[r].pending.kind = "throw" =>
            /\ run[r].pending.message \notin {"MCP client not found: " \o name : name \in ServerNames}
            /\ run[r].pending.message =
                    "Tool not found: " \o run[r].response.content[run[r].blockIdx].name
    /\ \A r \in RunIds :
        \A k \in 1..Len(run[r].toolResults) :
            run[r].toolResults[k].content \notin
                {"Error: MCP client not found: " \o name : name \in ServerNames}

\* The first provider connected and listed nothing, and a tool of the second
\* is being called.
C22_Witness ==
    \E r \in RunIds :
        /\ Len(attempts) = 2
        /\ attempts[1].connected
        /\ ~attempts[1].listed
        /\ attempts[1].serverName \in mcpClients
        /\ run[r].pc = "awaiting_tool"
        /\ run[r].pending.kind = "call"
        /\ run[r].pending.serverName = attempts[2].serverName

\* braveSearch gave nothing to enrich the message with: null, or no result.
SearchGaveNothing(outcome) ==
    outcome.kind \in {"no_key", "not_ok", "no_web", "thrown"} \/ outcome.results = <<>>

\* C23: in the serverless variant with direct search, an analyzer or writer
\* request searches never and a researcher request searches exactly once,
\* before its only model call; no tool is called; when the search gave nothing
\* (no key, status not ok, no web results, an error thrown, an empty list) the
\* model is called all the same, once, with the seed ending in the request's
\* message as it came; and the request is answered 500 only when the body
\* could not be read or the model call was rejected, never for the search.
C23_SearchFailureContained ==
    \A r \in RunIds :
        run[r].request.variant = "direct" =>
            LET researcher == run[r].request.agent.value = "researcher"
                message == run[r].request.message.value
            IN  /\ run[r].searches = IF researcher /\ run[r].pc # "idle" /\ run[r].status # 400 THEN 1 ELSE 0
                /\ run[r].modelCalls <= 1
                /\ run[r].toolCalls = 0
                /\ run[r].pc = "searching" => run[r].modelCalls = 0
                /\ (run[r].searches = 1 /\ run[r].pc # "searching") =>
                        /\ run[r].modelCalls = 1
                        /\ run[r].searched.kind # "none"
                /\ (run[r].pc = "awaiting_model" /\ SearchGaveNothing(run[r].searched)) =>
                        LET log == run[r].messages
                        IN  /\ Len(log) = IF Falsy(run[r].request.context) THEN 1 ELSE 3
                            /\ log[Len(log)] =
                                    [role |-> "user", text |-> message, kind |-> "string", blocks |-> <<>>]
                /\ run[r].status = 500 =>
                        \/ ~run[r].request.bodyOk
                        \/ run[r].modelFailure.defined /\ run[r].modelCalls = 1

\* A researcher's search threw, and the model call is in flight with the
\* context, the acknowledgment and the message as it came.
C23_Witness ==
    \E r \in RunIds :
        /\ run[r].request.variant = "direct"
        /\ run[r].request.agent = Field("researcher")
        /\ run[r].searched.kind = "thrown"
        /\ run[r].searches = 1
        /\ run[r].pc = "awaiting_model"
        /\ run[r].modelCalls = 1
        /\ Len(run[r].messages) = 3
        /\ run[r].messages[3].text = run[r].request.message.value

====
